---- MODULE Spec2Model ----
(***************************************************************************)
(* Model of mcproton: the Barrier constructors (src/src/barrier.rs) and    *)
(* the Monte Carlo pricer price_option (src/src/lib.rs).                   *)
(*                                                                         *)
(* f64 values are modelled on the integers.  The three non-finite values   *)
(* the aggregation can produce over an empty index list (+inf, -inf, NaN)  *)
(* are modelled by the sentinels INFINITY, NEG_INFINITY and NAN with the   *)
(* IEEE comparison rules (F64Ge, F64Le, F64Mul).  Division rounds down.    *)
(* The GBM growth factor exp(drift*dt + diffusion*sqrt_dt*z) of one step   *)
(* is a positive number drawn from GbmFactors (num/den pairs).             *)
(* Option<T> is a sequence of length 0 (None) or 1 (Some).                 *)
(* Rust indices are 0-based: prices[idx] is prices[idx + 1] here.          *)
(***************************************************************************)
EXTENDS Integers, Sequences, FiniteSets, TLC

\* ------------------------------------------------------------------ bounds
MaxUnderlyings == 2
MaxDays == 2
MaxPaths == 2
MaxRefLen == 4

\* ------------------------------------------------------- input value sets
Spots == {8, 16}
Strikes == {12}
Levels == {1, 12}
GbmFactors == {<<1, 2>>, <<2, 1>>}
Discounts == {<<1, 2>>, <<1, 1>>, <<2, 1>>}
BarrierTypes == {"WorstOf", "BestOf", "Average", "Median"}
RefPrices == {90, 100, 110, 120}

\* ------------------------------------------------------------- f64 values
INFINITY == 1000000
NEG_INFINITY == -1000000
NAN == -999999999

F64Ge(a, b) == a # NAN /\ b # NAN /\ a >= b
F64Le(a, b) == a # NAN /\ b # NAN /\ a <= b

\* a * b for a finite b > 0 or b <= 0 and a possibly non-finite a
F64Mul(a, b) ==
    IF a = NAN \/ b = NAN THEN NAN
    ELSE IF a = INFINITY \/ a = NEG_INFINITY
         THEN IF b = 0 THEN NAN
              ELSE IF (b > 0) = (a = INFINITY) THEN INFINITY ELSE NEG_INFINITY
         ELSE a * b

F64Min(a, b) == IF b = NAN THEN a ELSE IF a = NAN THEN b ELSE IF a <= b THEN a ELSE b
F64Max(a, b) == IF b = NAN THEN a ELSE IF a = NAN THEN b ELSE IF a >= b THEN a ELSE b

None == <<>>
Some(x) == <<x>>

\* -------------------------------------------------------------- barrier.rs
\* mutant of Barrier_new: in_out and up_down are stored in each other's field
Barrier_new_swapped(barrier_level, in_out, up_down, relative) ==
    [barrier_level |-> barrier_level,
     in_out |-> up_down,
     up_down |-> in_out,
     barrier_type |-> "WorstOf",
     relative |-> relative,
     underlying_indices |-> <<0>>]

Barrier_new(barrier_level, in_out, up_down, relative) ==
    [barrier_level |-> barrier_level,
     in_out |-> in_out,
     up_down |-> up_down,
     barrier_type |-> "WorstOf",
     relative |-> relative,
     underlying_indices |-> <<0>>]

\* mutant of new_multi_rejects: the negation of `relative` is lost
new_multi_rejects_relative(relative, underlying_indices) ==
    Len(underlying_indices) > 1 /\ relative

\* the validation of new_multi: multiple underlyings with an absolute level
new_multi_rejects(relative, underlying_indices) ==
    Len(underlying_indices) > 1 /\ ~relative

Barrier_new_multi(barrier_level, in_out, up_down, barrier_type, relative, underlying_indices) ==
    IF new_multi_rejects(relative, underlying_indices)
    THEN [ok |-> FALSE, barrier |-> None, err_len |-> Len(underlying_indices)]
    ELSE [ok |-> TRUE,
          barrier |-> Some([barrier_level |-> barrier_level,
                            in_out |-> in_out,
                            up_down |-> up_down,
                            barrier_type |-> barrier_type,
                            relative |-> relative,
                            underlying_indices |-> underlying_indices]),
          err_len |-> 0]

\* ------------------------------------------------------------------ lib.rs
Max(a, b) == IF a >= b THEN a ELSE b

\* indices.iter().map(|&idx| prices[idx]) as a sequence of values
selected(prices, indices) == [k \in 1..Len(indices) |-> prices[indices[k] + 1]]

RECURSIVE FoldMin(_, _)
FoldMin(acc, values) ==
    IF values = <<>> THEN acc ELSE FoldMin(F64Min(acc, Head(values)), Tail(values))

RECURSIVE FoldMax(_, _)
FoldMax(acc, values) ==
    IF values = <<>> THEN acc ELSE FoldMax(F64Max(acc, Head(values)), Tail(values))

RECURSIVE Sum(_)
Sum(values) == IF values = <<>> THEN 0 ELSE Head(values) + Sum(Tail(values))

\* values.sort_by(partial_cmp): insertion of x into an ascending sequence
RECURSIVE Insert(_, _)
Insert(x, sorted) ==
    IF sorted = <<>> THEN <<x>>
    ELSE IF x <= Head(sorted) THEN <<x>> \o sorted
    ELSE <<Head(sorted)>> \o Insert(x, Tail(sorted))

RECURSIVE SortAsc(_)
SortAsc(values) ==
    IF values = <<>> THEN <<>> ELSE Insert(Head(values), SortAsc(Tail(values)))

\* calculate_reference panics: prices[idx] out of bounds, or values[mid - 1]
\* with mid = 0 (Median over no index)
reference_panics(prices, indices, barrier_type) ==
    \/ \E k \in 1..Len(indices) : indices[k] >= Len(prices)
    \/ barrier_type = "Median" /\ Len(indices) = 0

\* mutant of calculate_reference: Median always takes the upper middle value
calculate_reference_upper_median(prices, indices, barrier_type) ==
    LET values == selected(prices, indices) IN
    CASE barrier_type = "WorstOf" -> FoldMin(INFINITY, values)
      [] barrier_type = "BestOf" -> FoldMax(NEG_INFINITY, values)
      [] barrier_type = "Average" ->
            IF Len(indices) = 0 THEN NAN ELSE Sum(values) \div Len(indices)
      [] barrier_type = "Median" ->
            LET sorted == SortAsc(values)
                mid == Len(sorted) \div 2
            IN sorted[mid + 1]

calculate_reference(prices, indices, barrier_type) ==
    LET values == selected(prices, indices) IN
    CASE barrier_type = "WorstOf" -> FoldMin(INFINITY, values)
      [] barrier_type = "BestOf" -> FoldMax(NEG_INFINITY, values)
      [] barrier_type = "Average" ->
            IF Len(indices) = 0 THEN NAN ELSE Sum(values) \div Len(indices)
      [] barrier_type = "Median" ->
            LET sorted == SortAsc(values)
                mid == Len(sorted) \div 2
            IN IF Len(sorted) % 2 = 0
               THEN (sorted[mid] + sorted[mid + 1]) \div 2
               ELSE sorted[mid + 1]

spot_prices(us) == [i \in 1..Len(us) |-> us[i].spot_price]

\* mutant of num_steps_of: daily steps are used with and without a barrier
num_steps_of_daily(b, days) == days

\* lines 74-78
num_steps_of(b, days) == IF b # None THEN days ELSE 1

\* mutant of effective_barrier_level: the level is never scaled by the reference
effective_barrier_level_unscaled(b, reference) == b.barrier_level

\* lines 153-158
effective_barrier_level(b, reference) ==
    IF b.relative THEN F64Mul(reference[1], b.barrier_level) ELSE b.barrier_level

\* mutant of hit_test: the comparisons are strict
hit_test_strict(b, comparison_value, level) ==
    IF b.up_down
    THEN F64Ge(comparison_value, level) /\ comparison_value # level
    ELSE F64Le(comparison_value, level) /\ comparison_value # level

\* lines 167-173
hit_test(b, comparison_value, level) ==
    IF b.up_down THEN F64Ge(comparison_value, level) ELSE F64Le(comparison_value, level)

\* mutant of update_barrier_hit: the flag follows the current test
update_barrier_hit_current(was_hit, hit) == hit

\* lines 175-177
update_barrier_hit(was_hit, hit) == was_hit \/ hit

\* mutant of intrinsic_payoff: the floor at 0 is lost
intrinsic_payoff_unfloored(final_price, strike, call) ==
    IF call THEN final_price - strike ELSE strike - final_price

\* lines 185-189
intrinsic_payoff(final_price, strike, call) ==
    IF call THEN Max(final_price - strike, 0) ELSE Max(strike - final_price, 0)

\* mutant of gated_payoff: the in and out branches are exchanged
gated_payoff_exchanged(b, hit, intrinsic) ==
    IF b # None
    THEN IF b[1].in_out
         THEN IF hit THEN 0 ELSE intrinsic
         ELSE IF hit THEN intrinsic ELSE 0
    ELSE intrinsic

\* mutant of gated_payoff: the knock-out branch pays whether or not it was hit
gated_payoff_out_ungated(b, was_hit, intrinsic) ==
    IF b # None
    THEN IF b[1].in_out
         THEN IF was_hit THEN intrinsic ELSE 0
         ELSE intrinsic
    ELSE intrinsic

\* lines 192-211
gated_payoff(b, hit, intrinsic) ==
    IF b # None
    THEN IF b[1].in_out
         THEN IF hit THEN intrinsic ELSE 0
         ELSE IF hit THEN 0 ELSE intrinsic
    ELSE intrinsic

\* lines 146-147
gbm_update(price, factor) == (price * factor[1]) \div factor[2]

\* mutant of cols_match: the column count is not compared
cols_match_unchecked(m, n) == TRUE

\* lines 38-49
rows_match(m, n) == m.nrows = n
cols_match(m, n) == m.ncols = n

\* ------------------------------------------------------------------- state
VARIABLES
    ctor,               \* which Barrier constructor the caller ran: "none", "new", "new_multi"
    ctor_args,          \* its arguments (Some record) or None
    ctor_result,        \* its result [ok, barrier, err_len]
    pc,                 \* position in price_option
    underlyings,        \* argument: sequence of [spot_price]
    correlation_matrix, \* argument: [nrows, ncols, positive_definite]
    time_horizon_days,  \* argument
    strike_price,       \* argument
    is_call,            \* argument
    num_paths,          \* argument
    barrier,            \* argument: Option<&Barrier>
    num_steps,          \* local, line 74
    initial_reference,  \* local, line 116: Option<f64>
    started,            \* number of iterations of the path loop begun (line 128)
    step,               \* number of iterations of the step loop done in this path (line 133)
    current_prices,     \* local, line 129
    barrier_hit,        \* local, line 130
    payoffs,            \* local, line 69
    option_price,       \* the returned value: Option<f64>
    panic_site,         \* where the call panicked, "" when it has not
    num_draws,          \* number of normal.sample calls made (line 137)
    level_used,         \* local effective_barrier_level of the last step (line 153): Option<f64>
    comparison_value,   \* local of the last step (line 161): Option<f64>
    hit,                \* local of the last step (line 167): Option<bool>
    last_intrinsic,     \* local intrinsic_payoff of the last payoff (line 185): Option<f64>
    twin_hit,           \* barrier_hit of the same run with the barrier's in_out negated
    twin_payoff         \* payoff of that run for the last path: Option<f64>

ctor_vars == <<ctor, ctor_args, ctor_result>>
arg_vars == <<underlyings, correlation_matrix, time_horizon_days, strike_price,
              is_call, num_paths, barrier>>
path_vars == <<started, step, current_prices, barrier_hit, payoffs>>
step_locals == <<level_used, comparison_value, hit>>
local_vars == <<level_used, comparison_value, hit, last_intrinsic, twin_hit, twin_payoff>>
vars == <<ctor, ctor_args, ctor_result, pc, underlyings, correlation_matrix,
          time_horizon_days, strike_price, is_call, num_paths, barrier, num_steps,
          initial_reference, started, step, current_prices, barrier_hit, payoffs,
          option_price, panic_site, num_draws, level_used, comparison_value, hit,
          last_intrinsic, twin_hit, twin_payoff>>

\* ------------------------------------------------------------ input spaces
UnderlyingLists ==
    UNION {[1..n -> [spot_price : Spots]] : n \in 0..MaxUnderlyings}

\* strictly increasing index lists over 0..MaxUnderlyings-1
IndexLists ==
    {ix \in UNION {[1..n -> 0..(MaxUnderlyings - 1)] : n \in 0..MaxUnderlyings} :
        \A k \in 1..(Len(ix) - 1) : ix[k] < ix[k + 1]}

\* a matrix by its shape and whether its Cholesky factorization exists; the
\* factorization of a 0x0 matrix exists, that of a non-square one does not
Matrices ==
    {m \in [nrows : 0..MaxUnderlyings, ncols : 0..MaxUnderlyings,
            positive_definite : BOOLEAN] :
        /\ m.positive_definite => m.nrows = m.ncols
        /\ (m.nrows = 0 /\ m.ncols = 0) => m.positive_definite}

Init ==
    /\ ctor = "none"
    /\ ctor_args = None
    /\ ctor_result = [ok |-> FALSE, barrier |-> None, err_len |-> 0]
    /\ pc = "idle"
    /\ underlyings = <<>>
    /\ correlation_matrix = [nrows |-> 0, ncols |-> 0, positive_definite |-> TRUE]
    /\ time_horizon_days = 0
    /\ strike_price = 0
    /\ is_call = FALSE
    /\ num_paths = 0
    /\ barrier = None
    /\ num_steps = 0
    /\ initial_reference = None
    /\ started = 0
    /\ step = 0
    /\ current_prices = <<>>
    /\ barrier_hit = FALSE
    /\ payoffs = <<>>
    /\ option_price = None
    /\ panic_site = ""
    /\ num_draws = 0
    /\ level_used = None
    /\ comparison_value = None
    /\ hit = None
    /\ last_intrinsic = None
    /\ twin_hit = FALSE
    /\ twin_payoff = None

\* ------------------------------------------------------ Barrier::new (58-72)
CallNew ==
    /\ pc = "idle" /\ ctor = "none"
    /\ \E barrier_level \in Levels, in_out \in BOOLEAN, up_down \in BOOLEAN,
          relative \in BOOLEAN :
        /\ ctor' = "new"
        /\ ctor_args' = Some([barrier_level |-> barrier_level, in_out |-> in_out,
                              up_down |-> up_down, relative |-> relative])
        /\ ctor_result' = [ok |-> TRUE,
                           barrier |-> Some(Barrier_new(barrier_level, in_out, up_down, relative)),
                           err_len |-> 0]
    /\ UNCHANGED <<pc, arg_vars, num_steps, initial_reference, path_vars,
                   option_price, panic_site, num_draws, local_vars>>

\* ------------------------------------------------ Barrier::new_multi (86-112)
CallNewMulti ==
    /\ pc = "idle" /\ ctor = "none"
    /\ \E barrier_level \in Levels, in_out \in BOOLEAN, up_down \in BOOLEAN,
          barrier_type \in BarrierTypes, relative \in BOOLEAN,
          underlying_indices \in IndexLists :
        /\ ctor' = "new_multi"
        /\ ctor_args' = Some([barrier_level |-> barrier_level, in_out |-> in_out,
                              up_down |-> up_down, barrier_type |-> barrier_type,
                              relative |-> relative,
                              underlying_indices |-> underlying_indices])
        /\ ctor_result' = Barrier_new_multi(barrier_level, in_out, up_down,
                                            barrier_type, relative, underlying_indices)
    /\ UNCHANGED <<pc, arg_vars, num_steps, initial_reference, path_vars,
                   option_price, panic_site, num_draws, local_vars>>

\* ------------------------------------------------- price_option, lines 25-49
\* The caller passes the barrier it built, or None when it built none; the
\* two assert_eq! on the matrix shape run first.
Enter ==
    /\ pc = "idle"
    /\ ctor = "none" \/ ctor_result.ok
    /\ \E us \in UnderlyingLists, m \in Matrices, days \in 0..MaxDays,
          k \in Strikes, call \in BOOLEAN, n \in 1..MaxPaths :
        /\ underlyings' = us
        /\ correlation_matrix' = m
        /\ time_horizon_days' = days
        /\ strike_price' = k
        /\ is_call' = call
        /\ num_paths' = n
        /\ barrier' = IF ctor = "none" THEN None ELSE ctor_result.barrier
        /\ IF ~rows_match(m, Len(us))
           THEN pc' = "panicked" /\ panic_site' = "assert_rows"
           ELSE IF ~cols_match(m, Len(us))
           THEN pc' = "panicked" /\ panic_site' = "assert_cols"
           ELSE pc' = "cholesky" /\ panic_site' = ""
    /\ UNCHANGED <<ctor_vars, num_steps, initial_reference, path_vars,
                   option_price, num_draws, local_vars>>

\* ------------------------------------------------------------ lines 51-57
Cholesky ==
    /\ pc = "cholesky"
    /\ IF correlation_matrix.positive_definite
       THEN pc' = "setup" /\ panic_site' = ""
       ELSE pc' = "panicked" /\ panic_site' = "cholesky"
    /\ UNCHANGED <<ctor_vars, arg_vars, num_steps, initial_reference, path_vars,
                   option_price, num_draws, local_vars>>

\* ----------------------------------------------------------- lines 59-125
Setup ==
    /\ pc = "setup"
    /\ num_steps' = num_steps_of(barrier, time_horizon_days)
    /\ IF barrier # None /\ barrier[1].relative
       THEN IF reference_panics(spot_prices(underlyings),
                                barrier[1].underlying_indices, barrier[1].barrier_type)
            THEN /\ pc' = "panicked" /\ panic_site' = "initial_reference"
                 /\ UNCHANGED initial_reference
            ELSE /\ pc' = "path_loop" /\ panic_site' = ""
                 /\ initial_reference' =
                        Some(calculate_reference(spot_prices(underlyings),
                                                 barrier[1].underlying_indices,
                                                 barrier[1].barrier_type))
       ELSE /\ pc' = "path_loop" /\ panic_site' = ""
            /\ initial_reference' = None
    /\ UNCHANGED <<ctor_vars, arg_vars, path_vars, option_price, num_draws, local_vars>>

\* ----------------------------------------------------------- lines 128-130
\* mutant of initial_prices: the price vector is allocated once and reused
initial_prices_reused(us) == IF started = 0 THEN spot_prices(us) ELSE current_prices

initial_prices(us) == spot_prices(us)

\* mutant of initial_barrier_hit: the barrier is also tested on the initial prices
initial_barrier_hit_tested(b, prices, reference) ==
    /\ b # None
    /\ ~reference_panics(prices, b[1].underlying_indices, b[1].barrier_type)
    /\ hit_test(b[1],
                calculate_reference(prices, b[1].underlying_indices, b[1].barrier_type),
                effective_barrier_level(b[1], reference))

\* line 130: the flag of a new path, whatever the barrier and the initial prices
initial_barrier_hit(b, prices, reference) == FALSE

\* the same barrier with in_out negated
twin_barrier(b) == [b EXCEPT !.in_out = ~b.in_out]

PathStart ==
    /\ pc = "path_loop"
    /\ started < num_paths
    /\ started' = started + 1
    /\ current_prices' = initial_prices(underlyings)
    /\ barrier_hit' = initial_barrier_hit(barrier, initial_prices(underlyings),
                                          initial_reference)
    /\ twin_hit' = initial_barrier_hit(IF barrier = None THEN None
                                       ELSE Some(twin_barrier(barrier[1])),
                                       initial_prices(underlyings), initial_reference)
    /\ step' = 0
    /\ level_used' = None
    /\ comparison_value' = None
    /\ hit' = None
    /\ last_intrinsic' = None
    /\ twin_payoff' = None
    /\ pc' = "step_loop"
    /\ UNCHANGED <<ctor_vars, arg_vars, num_steps, initial_reference, payoffs,
                   option_price, panic_site, num_draws>>

\* ----------------------------------------------------------- lines 133-179
\* One iteration of the step loop: one draw per underlying, the price update
\* of every underlying, then the barrier check on the updated prices.
Step ==
    /\ pc = "step_loop"
    /\ step < num_steps
    /\ \E factor \in [1..Len(underlyings) -> GbmFactors] :
        LET updated == [i \in 1..Len(underlyings) |->
                            gbm_update(current_prices[i], factor[i])]
        IN
        /\ num_draws' = num_draws + Len(underlyings)
        /\ current_prices' = updated
        /\ IF barrier = None
           THEN /\ step' = step + 1
                /\ UNCHANGED <<barrier_hit, pc, panic_site, step_locals, twin_hit>>
           ELSE IF reference_panics(updated, barrier[1].underlying_indices,
                                    barrier[1].barrier_type)
           THEN /\ pc' = "panicked" /\ panic_site' = "comparison_value"
                /\ level_used' = Some(effective_barrier_level(barrier[1], initial_reference))
                /\ UNCHANGED <<barrier_hit, step, comparison_value, hit, twin_hit>>
           ELSE LET level == effective_barrier_level(barrier[1], initial_reference)
                    value ==
                        calculate_reference(updated, barrier[1].underlying_indices,
                                            barrier[1].barrier_type)
                    twin == twin_barrier(barrier[1])
                    twin_value ==
                        calculate_reference(updated, twin.underlying_indices,
                                            twin.barrier_type)
                IN /\ level_used' = Some(level)
                   /\ comparison_value' = Some(value)
                   /\ hit' = Some(hit_test(barrier[1], value, level))
                   /\ barrier_hit' =
                        update_barrier_hit(barrier_hit, hit_test(barrier[1], value, level))
                   /\ twin_hit' =
                        update_barrier_hit(twin_hit,
                            hit_test(twin, twin_value,
                                     effective_barrier_level(twin, initial_reference)))
                   /\ step' = step + 1
                   /\ UNCHANGED <<pc, panic_site>>
    /\ UNCHANGED <<ctor_vars, arg_vars, num_steps, initial_reference, started,
                   payoffs, option_price, last_intrinsic, twin_payoff>>

\* ----------------------------------------------------------- lines 181-213
\* mutant of final_price_of: the last underlying's price is used
final_price_of_last(prices) == prices[Len(prices)]

\* line 184
final_price_of(prices) == prices[1]

Payoff ==
    /\ pc = "step_loop"
    /\ step >= num_steps
    /\ IF Len(current_prices) = 0
       THEN /\ pc' = "panicked" /\ panic_site' = "final_price"
            /\ UNCHANGED <<payoffs, last_intrinsic, twin_payoff>>
       ELSE LET final_price == final_price_of(current_prices)
                intrinsic == intrinsic_payoff(final_price, strike_price, is_call)
            IN /\ last_intrinsic' = Some(intrinsic)
               /\ payoffs' = Append(payoffs, gated_payoff(barrier, barrier_hit, intrinsic))
               /\ twin_payoff' =
                    IF barrier = None THEN None
                    ELSE Some(gated_payoff(Some(twin_barrier(barrier[1])), twin_hit,
                                           intrinsic))
               /\ pc' = "path_loop"
               /\ UNCHANGED panic_site
    /\ UNCHANGED <<ctor_vars, arg_vars, num_steps, initial_reference, started, step,
                   current_prices, barrier_hit, option_price, num_draws, step_locals,
                   twin_hit>>

\* ----------------------------------------------------------- lines 216-222
\* exp(-risk_free_rate * time_to_expiration): exactly 1 for a horizon of 0
\* days, otherwise a positive factor from Discounts
discount_factors(days) == IF days = 0 THEN {<<1, 1>>} ELSE Discounts

Return ==
    /\ pc = "path_loop"
    /\ started >= num_paths
    /\ \E discount \in discount_factors(time_horizon_days) :
        LET average_payoff == Sum(payoffs) \div num_paths
        IN option_price' = Some((average_payoff * discount[1]) \div discount[2])
    /\ pc' = "returned"
    /\ UNCHANGED <<ctor_vars, arg_vars, num_steps, initial_reference, path_vars,
                   panic_site, num_draws, local_vars>>

Next ==
    \/ CallNew
    \/ CallNewMulti
    \/ Enter
    \/ Cholesky
    \/ Setup
    \/ PathStart
    \/ Step
    \/ Payoff
    \/ Return

Spec == Init /\ [][Next]_vars

\* ------------------------------------------- calculate_reference on its own
\* index lists without repetition into a price vector of length n, in any order
RefIndexLists(n) ==
    {ix \in UNION {[1..k -> 0..(n - 1)] : k \in 0..n} :
        \A i, j \in 1..Len(ix) : i # j => ix[i] # ix[j]}

\* a price vector and a barrier's aggregation rule and index list
InitRef ==
    /\ \E n \in 0..MaxRefLen :
        /\ current_prices \in [1..n -> RefPrices]
        /\ \E barrier_type \in BarrierTypes, ix \in RefIndexLists(n) :
             barrier = Some([barrier_level |-> 1, in_out |-> FALSE, up_down |-> FALSE,
                             barrier_type |-> barrier_type, relative |-> TRUE,
                             underlying_indices |-> ix])
    /\ pc = "reference"
    /\ ctor = "none"
    /\ ctor_args = None
    /\ ctor_result = [ok |-> FALSE, barrier |-> None, err_len |-> 0]
    /\ underlyings = <<>>
    /\ correlation_matrix = [nrows |-> 0, ncols |-> 0, positive_definite |-> TRUE]
    /\ time_horizon_days = 0
    /\ strike_price = 0
    /\ is_call = FALSE
    /\ num_paths = 0
    /\ num_steps = 0
    /\ initial_reference = None
    /\ started = 0
    /\ step = 0
    /\ barrier_hit = FALSE
    /\ payoffs = <<>>
    /\ option_price = None
    /\ panic_site = ""
    /\ num_draws = 0
    /\ level_used = None
    /\ comparison_value = None
    /\ hit = None
    /\ last_intrinsic = None
    /\ twin_hit = FALSE
    /\ twin_payoff = None

\* lines 161-165: one call of calculate_reference on the current prices
ApplyReference ==
    /\ pc = "reference"
    /\ IF reference_panics(current_prices, barrier[1].underlying_indices,
                           barrier[1].barrier_type)
       THEN /\ pc' = "panicked" /\ panic_site' = "comparison_value"
            /\ UNCHANGED comparison_value
       ELSE /\ comparison_value' =
                 Some(calculate_reference(current_prices, barrier[1].underlying_indices,
                                          barrier[1].barrier_type))
            /\ pc' = "reference_done"
            /\ UNCHANGED panic_site
    /\ UNCHANGED <<ctor_vars, arg_vars, num_steps, initial_reference, path_vars,
                   option_price, num_draws, level_used, hit, last_intrinsic,
                   twin_hit, twin_payoff>>

NextRef == ApplyReference

SpecRef == InitRef /\ [][NextRef]_vars

\* ================================================================== claims

\* the call has valid arguments in the sense of the interface contract
ValidInput ==
    /\ pc # "idle"
    /\ Len(underlyings) >= 1
    /\ correlation_matrix.nrows = Len(underlyings)
    /\ correlation_matrix.ncols = Len(underlyings)
    /\ correlation_matrix.positive_definite
    /\ num_paths >= 1

\* the barrier test on the prices of the current state
AggregateSatisfies ==
    hit_test(barrier[1],
             calculate_reference(current_prices, barrier[1].underlying_indices,
                                 barrier[1].barrier_type),
             effective_barrier_level(barrier[1], initial_reference))

\* C1: Barrier::new_multi returns an error, and no Barrier, whenever
\* underlying_indices has more than one element and relative is false, for
\* every barrier_level, in_out, up_down and barrier_type.
C1_NewMultiRejectsAbsoluteMulti ==
    (/\ ctor = "new_multi"
     /\ Len(ctor_args[1].underlying_indices) > 1
     /\ ~ctor_args[1].relative)
    => (~ctor_result.ok /\ ctor_result.barrier = None)

C1_Witness ==
    /\ ctor = "new_multi"
    /\ Len(ctor_args[1].underlying_indices) > 1
    /\ ~ctor_args[1].relative
    /\ ctor_args[1].barrier_type = "Median"
    /\ ~ctor_result.ok

\* C2: for valid input every payoff recorded for a path is >= 0 and the
\* returned price is >= 0.
C2_PayoffsAndPriceNonNegative ==
    ValidInput =>
        /\ \A k \in 1..Len(payoffs) : payoffs[k] >= 0
        /\ pc = "returned" => option_price[1] >= 0

C2_Witness ==
    /\ ValidInput
    /\ pc = "returned"
    /\ barrier # None
    /\ Len(payoffs) = 2
    /\ payoffs[1] = 0
    /\ payoffs[2] > 0
    /\ option_price[1] > 0

\* C3: a pricing call either simulates all num_paths paths and returns one
\* price, or aborts before the first path is started; it never aborts after a
\* path or a step has begun.
C3_AllOrNothing ==
    /\ pc = "panicked" => started = 0
    /\ pc = "returned" => Len(payoffs) = num_paths

\* C4: when the matrix's row or column count differs from the number of
\* underlyings, price_option panics in its shape assertions, before any random
\* draw and before any path, and returns no number.
C4_DimensionMismatchPanicsFirst ==
    (/\ pc # "idle"
     /\ \/ correlation_matrix.nrows # Len(underlyings)
        \/ correlation_matrix.ncols # Len(underlyings))
    => /\ pc = "panicked"
       /\ panic_site \in {"assert_rows", "assert_cols"}
       /\ num_draws = 0
       /\ started = 0
       /\ option_price = None

C4_Witness ==
    /\ pc = "panicked"
    /\ panic_site = "assert_cols"
    /\ correlation_matrix.nrows = Len(underlyings)
    /\ correlation_matrix.ncols # Len(underlyings)
    /\ Len(underlyings) = 2

\* C5: a call with an empty list of underlyings and a 0x0 matrix is rejected
\* before the path loop is entered: no path is started and no step is executed.
C5_EmptyRejectedBeforeLoop ==
    (/\ pc # "idle"
     /\ Len(underlyings) = 0
     /\ correlation_matrix.nrows = 0
     /\ correlation_matrix.ncols = 0)
    => (started = 0 /\ step = 0)

\* C6: every Barrier returned by Barrier::new or by a successful
\* Barrier::new_multi has a non-empty underlying_indices.
C6_IndicesNonEmpty ==
    (ctor # "none" /\ ctor_result.ok)
    => Len(ctor_result.barrier[1].underlying_indices) > 0

\* C7: Barrier::new always returns a Barrier with barrier_type = WorstOf and
\* underlying_indices = [0], and copies barrier_level, in_out, up_down and
\* relative unchanged into it.
C7_NewDefaults ==
    ctor = "new" =>
        /\ ctor_result.ok
        /\ ctor_result.barrier =
             Some([barrier_level |-> ctor_args[1].barrier_level,
                   in_out |-> ctor_args[1].in_out,
                   up_down |-> ctor_args[1].up_down,
                   barrier_type |-> "WorstOf",
                   relative |-> ctor_args[1].relative,
                   underlying_indices |-> <<0>>])

C7_Witness ==
    /\ ctor = "new"
    /\ ctor_args[1].in_out
    /\ ~ctor_args[1].up_down
    /\ ctor_args[1].relative
    /\ ctor_result.barrier[1].barrier_type = "WorstOf"

\* C8: within one path the hit flag is absorbing: it is false when the path
\* starts, a step sets it exactly when it was set before or the step's
\* aggregate satisfies the direction/level test, and once true it stays true
\* for the rest of the path.
C8_HitFlagAbsorbing ==
    [][/\ (pc' = "step_loop" /\ step' = 0) => ~barrier_hit'
       /\ (/\ barrier # None
           /\ pc = "step_loop" /\ pc' = "step_loop"
           /\ started' = started /\ step' = step + 1)
          => (barrier_hit' = (barrier_hit \/ AggregateSatisfies'))
       /\ (started' = started /\ barrier_hit) => barrier_hit']_vars

C8_Witness ==
    /\ pc = "step_loop"
    /\ barrier # None
    /\ step = 2
    /\ barrier_hit
    /\ ~AggregateSatisfies

\* C9: the payoff recorded for a path is the intrinsic payoff with no barrier;
\* with a knock-in barrier the intrinsic payoff if the final flag is true and
\* 0 otherwise; with a knock-out barrier the intrinsic payoff if the final
\* flag is false and 0 otherwise.
C9_PayoffGatedByFlag ==
    (pc = "path_loop" /\ Len(payoffs) > 0) =>
        LET recorded == payoffs[Len(payoffs)]
            intrinsic == intrinsic_payoff(current_prices[1], strike_price, is_call)
        IN /\ barrier = None => recorded = intrinsic
           /\ (barrier # None /\ barrier[1].in_out) =>
                  recorded = (IF barrier_hit THEN intrinsic ELSE 0)
           /\ (barrier # None /\ ~barrier[1].in_out) =>
                  recorded = (IF barrier_hit THEN 0 ELSE intrinsic)

C9_Witness ==
    /\ pc = "path_loop"
    /\ Len(payoffs) > 0
    /\ barrier # None
    /\ barrier[1].in_out
    /\ ~barrier_hit
    /\ intrinsic_payoff(current_prices[1], strike_price, is_call) > 0
    /\ payoffs[Len(payoffs)] = 0

\* C10: at the start of every path the current prices are the spot prices and
\* the hit flag is false, whatever happened in earlier paths.
C10_PathStartsFresh ==
    (pc = "step_loop" /\ step = 0) =>
        /\ current_prices = spot_prices(underlyings)
        /\ ~barrier_hit

C10_Witness ==
    /\ pc = "step_loop"
    /\ step = 0
    /\ started = 2
    /\ barrier # None
    /\ barrier[1].in_out
    /\ payoffs[1] > 0

\* the aggregate of the spot prices over the barrier's indices
SpotAggregate ==
    calculate_reference(spot_prices(underlyings), barrier[1].underlying_indices,
                        barrier[1].barrier_type)

\* the aggregate of the current prices over the barrier's indices
CurrentAggregate ==
    calculate_reference(current_prices, barrier[1].underlying_indices,
                        barrier[1].barrier_type)

\* a path's payoff has been recorded and the next path has not begun
PathDone == pc \in {"path_loop", "returned"} /\ last_intrinsic # None

\* C11: a path runs exactly 1 step when no barrier is given, for every horizon
\* including 0 days, and exactly time_horizon_days steps when a barrier is
\* given; every path of the call runs that same number of steps.
C11_StepCount ==
    /\ PathDone => step = (IF barrier = None THEN 1 ELSE time_horizon_days)
    /\ pc = "step_loop" => step <= (IF barrier = None THEN 1 ELSE time_horizon_days)

C11_Witness ==
    /\ pc = "returned"
    /\ barrier = None
    /\ time_horizon_days = 0
    /\ started = 2
    /\ step = 1

\* C12: the effective barrier level is the same at every step of every path:
\* barrier_level times the aggregate of the spot prices over the barrier's
\* indices for a relative barrier, barrier_level itself for an absolute one.
C12_EffectiveLevelFixed ==
    (barrier # None /\ level_used # None) =>
        level_used[1] = (IF barrier[1].relative
                         THEN F64Mul(SpotAggregate, barrier[1].barrier_level)
                         ELSE barrier[1].barrier_level)

C12_Witness ==
    /\ pc = "step_loop"
    /\ barrier # None
    /\ barrier[1].relative
    /\ barrier[1].barrier_type = "Average"
    /\ Len(barrier[1].underlying_indices) = 2
    /\ started = 2
    /\ step = 2
    /\ underlyings[1].spot_price # underlyings[2].spot_price
    /\ CurrentAggregate # SpotAggregate
    /\ level_used = Some(SpotAggregate * barrier[1].barrier_level)

\* equality of two f64 values: NaN equals nothing
F64Eq(a, b) == a # NAN /\ b # NAN /\ a = b

\* C13: the barrier test of a step is inclusive: for an up barrier the step is
\* a hit exactly when the current aggregate is >= the effective level, for a
\* down barrier exactly when it is <= the level; equality is a hit for both.
C13_HitTestInclusive ==
    (barrier # None /\ hit # None) =>
        /\ comparison_value = Some(CurrentAggregate)
        /\ barrier[1].up_down =>
             (hit[1] <=> F64Ge(comparison_value[1], level_used[1]))
        /\ ~barrier[1].up_down =>
             (hit[1] <=> F64Le(comparison_value[1], level_used[1]))
        /\ F64Eq(comparison_value[1], level_used[1]) => hit[1]

C13_Witness ==
    /\ barrier # None
    /\ hit = Some(TRUE)
    /\ ~barrier[1].up_down
    /\ step = 2
    /\ comparison_value[1] = level_used[1]

\* C15: the intrinsic payoff of a path is max(terminal0 - strike, 0) for a call
\* and max(strike - terminal0, 0) for a put, where terminal0 is the terminal
\* price of underlying index 0; the other underlyings' prices do not enter.
C15_IntrinsicFromFirstUnderlying ==
    PathDone =>
        LET terminal0 == current_prices[1]
            gain == IF is_call THEN terminal0 - strike_price
                    ELSE strike_price - terminal0
        IN last_intrinsic[1] = (IF gain > 0 THEN gain ELSE 0)

C15_Witness ==
    /\ PathDone
    /\ Len(current_prices) = 2
    /\ current_prices[2] > strike_price
    /\ current_prices[1] < strike_price
    /\ is_call
    /\ last_intrinsic = Some(0)

\* C16: the barrier is tested only after a price update: the hit flag turns
\* true only in a step of the step loop, it is false at the start of a path
\* even when the spot prices satisfy the barrier's condition, and with a
\* barrier and a 0-day horizon it is false at the end of every path, so that
\* the knock-in price is 0 and the knock-out price is the intrinsic payoff at
\* the spot price.
C16_TestedOnlyAfterUpdate ==
    [][/\ (~barrier_hit /\ barrier_hit') =>
            (pc = "step_loop" /\ step' = step + 1 /\ hit' = Some(TRUE))
       /\ (pc' = "step_loop" /\ step' = 0) => ~barrier_hit'
       /\ (barrier' # None /\ time_horizon_days' = 0 /\ pc' # "idle") =>
            /\ ~barrier_hit'
            /\ pc' = "returned" =>
                 option_price' =
                    Some(IF barrier'[1].in_out THEN 0
                         ELSE intrinsic_payoff(underlyings'[1].spot_price,
                                               strike_price', is_call'))]_vars

C16_Witness ==
    /\ pc = "returned"
    /\ barrier # None
    /\ time_horizon_days = 0
    /\ barrier[1].in_out
    /\ ~barrier[1].up_down
    /\ F64Le(SpotAggregate, effective_barrier_level(barrier[1], initial_reference))
    /\ last_intrinsic[1] > 0
    /\ ~barrier_hit
    /\ option_price = Some(0)

\* the payoffs of the last path under the knock-in and the knock-out variant
\* of the barrier, simulated with the same shocks
KnockInPayoff ==
    IF barrier[1].in_out THEN payoffs[Len(payoffs)] ELSE twin_payoff[1]
KnockOutPayoff ==
    IF barrier[1].in_out THEN twin_payoff[1] ELSE payoffs[Len(payoffs)]

\* C17 as stated: the knock-in payoff plus the knock-out payoff of a path is
\* the path's intrinsic payoff, and exactly one of the two is the intrinsic
\* payoff while the other is 0.
C17_ExactlyOneIsIntrinsic ==
    (PathDone /\ barrier # None) =>
        /\ KnockInPayoff + KnockOutPayoff = last_intrinsic[1]
        /\ \/ (KnockInPayoff = last_intrinsic[1] /\ KnockOutPayoff = 0)
           \/ (KnockOutPayoff = last_intrinsic[1] /\ KnockInPayoff = 0)
        /\ (KnockInPayoff = last_intrinsic[1]) # (KnockOutPayoff = last_intrinsic[1])

\* C17 as amended: the knock-in payoff plus the knock-out payoff of a path is
\* the path's intrinsic payoff, one of the two is the intrinsic payoff while
\* the other is 0, and exactly one is the intrinsic payoff when that is > 0:
\* the knock-in one when the path hit the barrier, else the knock-out one.
C17_InOutParity ==
    (PathDone /\ barrier # None) =>
        /\ KnockInPayoff + KnockOutPayoff = last_intrinsic[1]
        /\ \/ (KnockInPayoff = last_intrinsic[1] /\ KnockOutPayoff = 0)
           \/ (KnockOutPayoff = last_intrinsic[1] /\ KnockInPayoff = 0)
        /\ last_intrinsic[1] > 0 =>
             /\ (KnockInPayoff = last_intrinsic[1]) # (KnockOutPayoff = last_intrinsic[1])
             /\ (KnockInPayoff = last_intrinsic[1]) <=> barrier_hit
        /\ twin_hit = barrier_hit

C17_Witness ==
    /\ PathDone
    /\ barrier # None
    /\ ~barrier[1].in_out
    /\ barrier_hit
    /\ step = 2
    /\ last_intrinsic[1] > 0
    /\ KnockInPayoff = last_intrinsic[1]
    /\ KnockOutPayoff = 0

\* the barrier's index list, and the price it selects at position k of the list
RefIndices == barrier[1].underlying_indices
RefValue(k) == current_prices[RefIndices[k] + 1]
RefPositions == 1..Len(RefIndices)

\* the r-th smallest selected price, by counting
OrderStatistic(r) ==
    CHOOSE x \in {RefValue(k) : k \in RefPositions} :
        /\ Cardinality({k \in RefPositions : RefValue(k) < x}) < r
        /\ Cardinality({k \in RefPositions : RefValue(k) <= x}) >= r

\* the sum of the selected prices, position by position
RECURSIVE TotalUpTo(_)
TotalUpTo(k) == IF k = 0 THEN 0 ELSE RefValue(k) + TotalUpTo(k - 1)

\* C14: for a non-empty index list and any price vector the aggregate is the
\* minimum of the selected prices for WorstOf, the maximum for BestOf, the
\* arithmetic mean for Average, and for Median the middle value of the sorted
\* selected prices when their count is odd and the mean of the two middle
\* values when it is even ([90,100,110,120] gives 105, [90,100,120] gives
\* 100); prices at indices outside the list do not affect it.
C14_AggregationRules ==
    (pc = "reference_done" /\ Len(RefIndices) > 0) =>
        LET result == comparison_value[1]
            n == Len(RefIndices)
            rule == barrier[1].barrier_type
        IN /\ rule = "WorstOf" =>
                /\ \E k \in RefPositions : result = RefValue(k)
                /\ \A k \in RefPositions : result <= RefValue(k)
           /\ rule = "BestOf" =>
                /\ \E k \in RefPositions : result = RefValue(k)
                /\ \A k \in RefPositions : result >= RefValue(k)
           /\ rule = "Average" =>
                /\ n * result <= TotalUpTo(n)
                /\ TotalUpTo(n) < n * (result + 1)
           /\ (rule = "Median" /\ n % 2 = 1) =>
                result = OrderStatistic((n + 1) \div 2)
           /\ (rule = "Median" /\ n % 2 = 0) =>
                /\ 2 * result <= OrderStatistic(n \div 2) + OrderStatistic(n \div 2 + 1)
                /\ OrderStatistic(n \div 2) + OrderStatistic(n \div 2 + 1) < 2 * (result + 1)
           /\ (rule = "Median" /\ current_prices = <<90, 100, 110, 120>>
               /\ RefIndices = <<0, 1, 2, 3>>) => result = 105
           /\ (rule = "Median" /\ current_prices = <<90, 100, 120>>
               /\ RefIndices = <<0, 1, 2>>) => result = 100
           /\ \A j \in 1..Len(current_prices), p \in RefPrices :
                (\A k \in RefPositions : RefIndices[k] + 1 # j) =>
                    calculate_reference([current_prices EXCEPT ![j] = p],
                                        RefIndices, rule) = result

C14_Witness ==
    /\ pc = "reference_done"
    /\ barrier[1].barrier_type = "Median"
    /\ current_prices = <<110, 90, 120, 100>>
    /\ RefIndices = <<0, 1, 2, 3>>
    /\ comparison_value = Some(105)

====
